---- MODULE Spec2Model ----
(***************************************************************************)
(* The request pipeline of fastjs-next, packages/core/src/request:         *)
(*   core.ts  sendRequest / passthrough / matchCallback /                  *)
(*            handleBadResponse / hookFailed / runHooks                    *)
(*   lib.ts   addQuery / queryToUrlParams / transformPathParams            *)
(*                                                                         *)
(* Strings are modelled structurally.  A URL is the sequence of its        *)
(* "/"-separated components plus what addQuery appended to it; a component *)
(* is [p, t]: p says that it starts with ":" and t is the text after that  *)
(* colon (the whole text when p is FALSE).  Values substituted into a path *)
(* contain neither "/" nor "?" nor a leading ":".                          *)
(*                                                                         *)
(* User functions (hooks, the failed handler, callbacks) return normally;  *)
(* what a hook returns is an input of the step that invokes it.            *)
(***************************************************************************)
EXTENDS Integers, Sequences, FiniteSets, TLC

(* ------------------------------------------------------------ bounds -- *)
MaxHooks == 2
MaxCb == 2
MaxInflight == 1
MaxTimers == 2

(* --------------------------------------------------------- JS values -- *)
\* k is the type (typeof), v the value
Str(s) == [k |-> "string", v |-> s]
Num(n) == [k |-> "number", v |-> n]
Bool(b) == [k |-> "boolean", v |-> b]
Undef == [k |-> "undefined", v |-> 0]

Digits == <<"0", "1", "2", "3", "4", "5", "6", "7", "8", "9">>

\* ToBoolean, as `query[key]` is tested in transformPathParams
Truthy(v) ==
  CASE v.k = "string" -> v.v # ""
    [] v.k = "number" -> v.v # 0
    [] v.k = "boolean" -> v.v
    [] OTHER -> FALSE

\* ToString of a primitive, as Array.prototype.join and URLSearchParams apply it
ToStr(v) ==
  CASE v.k = "string" -> v.v
    [] v.k = "number" -> Digits[v.v + 1]
    [] v.k = "boolean" -> (IF v.v THEN "true" ELSE "false")
    [] OTHER -> "undefined"

\* application/x-www-form-urlencoded serialisation of one name or value
FormEncode(s) == IF s = "a b" THEN "a+b" ELSE s

(* ----------------------------------------------------------- objects -- *)
\* Property names, in the insertion order of the payloads considered.
KeyOrder == <<"id", "active", "n">>

\* A plain object: a function from its own property names to their values;
\* a property that is absent reads as undefined.
EmptyObj == [k \in {} |-> Undef]
Get(o, k) == IF k \in DOMAIN o THEN o[k] ELSE Undef
Obj1(k1, v1) == [k \in {k1} |-> v1]
\* {k1: v1, k2: v2}, where an undefined value stands for "not given"
Obj2(k1, v1, k2, v2) ==
  [k \in {x \in {k1, k2} : (IF x = k1 THEN v1 ELSE v2) # Undef} |-> IF k = k1 THEN v1 ELSE v2]
Delete(o, k) == [x \in DOMAIN o \ {k} |-> o[x]]
OwnKeys(o) == SelectSeq(KeyOrder, LAMBDA k : k \in DOMAIN o)
\* Object.assign(target, source)
ObjectAssign(target, source) ==
  [k \in DOMAIN target \cup DOMAIN source |-> IF k \in DOMAIN source THEN source[k] ELSE target[k]]

\* The `query` argument of addQuery: null, a map, or a string "k=v&..."
\* (lead: it starts with "?"; pairs: its "&"-separated "k=v" parts).
QNull == [kind |-> "null", map |-> EmptyObj, lead |-> FALSE, pairs |-> <<>>]
QMap(o) == [kind |-> "map", map |-> o, lead |-> FALSE, pairs |-> <<>>]
QString(lead, pairs) == [kind |-> "string", map |-> EmptyObj, lead |-> lead, pairs |-> pairs]

(* -------------------------------------------------------------- URLs -- *)
Lit(t) == [p |-> FALSE, t |-> t]
Param(t) == [p |-> TRUE, t |-> t]

\* path: the components; hasQuery: the text contains a "?"; sep and search:
\* the separator and the parameters addQuery appended; trail: text after them.
Url(path) == [path |-> path, hasQuery |-> FALSE, sep |-> "", search |-> <<>>, trail |-> <<>>]

(* ------------------------------------------------------------ lib.ts -- *)
\* The map callback of transformPathParams over the components, left to
\* right; `query` is mutated as keys are consumed.  The last component of a
\* URL that already has a query carries that query in its text, so its key
\* is no property name.
RECURSIVE TransformComponents(_, _, _, _, _)
TransformComponents(comps, hasQuery, query, out, matchs) ==
  IF comps = <<>>
  THEN [path |-> out, matchs |-> matchs, query |-> query]
  ELSE LET component == Head(comps)
           key == IF hasQuery /\ Len(comps) = 1 THEN "?" ELSE component.t
       IN IF component.p /\ Truthy(Get(query, key))
          THEN TransformComponents(Tail(comps), hasQuery, Delete(query, key),
                                   Append(out, Lit(ToStr(query[key]))),
                                   Append(matchs, key))
          ELSE TransformComponents(Tail(comps), hasQuery, query,
                                   Append(out, component), matchs)

\* transformPathParams(url, query): [url, matchs], and `query` as it is left
TransformPathParams(url, query) ==
  LET r == TransformComponents(url.path, url.hasQuery, query, <<>>, <<>>)
  IN [url |-> [url EXCEPT !.path = r.path], matchs |-> r.matchs, query |-> r.query]

\* URLSearchParams.prototype.set
UspSet(params, key, value) ==
  IF \E i \in 1..Len(params) : params[i][1] = key
  THEN [i \in 1..Len(params) |->
          IF params[i][1] = key THEN <<key, value>> ELSE params[i]]
  ELSE Append(params, <<key, value>>)

RECURSIVE UspSetAll(_, _)
UspSetAll(params, pairs) ==
  IF pairs = <<>> THEN params
  ELSE UspSetAll(UspSet(params, Head(pairs)[1], Head(pairs)[2]), Tail(pairs))

\* queryToUrlParams(query), serialised: the <<name, value>> pairs of toString()
QueryToUrlParams(query) ==
  IF query.kind = "map"
  THEN LET ks == OwnKeys(query.map)
       IN [i \in 1..Len(ks) |-> <<FormEncode(ks[i]), FormEncode(ToStr(query.map[ks[i]]))>>]
  ELSE IF query.pairs = <<>>
       THEN <<<<"", "undefined">>>>
       ELSE UspSetAll(<<>>, query.pairs)

\* !query || Object.keys(query).length === 0
QueryIsEmpty(query) ==
  \/ query.kind = "null"
  \/ query.kind = "map" /\ OwnKeys(query.map) = <<>>
  \/ query.kind = "string" /\ ~query.lead /\ query.pairs = <<>>

\* What Object.assign copies from `query`: the own properties of a map; a
\* string contributes index properties only, null nothing.
QuerySource(query) == IF query.kind = "map" THEN query.map ELSE EmptyObj

\* addQuery(url, query, body): the pair [url, paramMatches] it returns
AddQuery(url, query, body) ==
  LET t == TransformPathParams(url,
             ObjectAssign(IF body.kind = "map" THEN body.map ELSE EmptyObj,
                          QuerySource(query)))
      usp == QueryToUrlParams(query)
  IN IF QueryIsEmpty(query)
     THEN [url |-> t.url, matches |-> <<>>]
     ELSE IF Len(usp) > 0
          THEN [url |-> [t.url EXCEPT !.sep = IF t.url.hasQuery THEN "&" ELSE "?",
                                     !.search = usp,
                                     !.hasQuery = TRUE],
                matches |-> t.matchs]
          ELSE [url |-> t.url, matches |-> t.matchs]

\* A response text is the sequence of its tokens.  JSON.parse of the text of
\* a number, a boolean, null, a string or an object of one property: ok says
\* that it does not throw, value is what it returns.
Null == [k |-> "null", v |-> 0]
Object(o) == [k |-> "object", v |-> o]
Text(ts) == [k |-> "text", v |-> ts]
Unparsed == [ok |-> FALSE, value |-> Undef]
Parsed(value) == [ok |-> TRUE, value |-> value]
DigitOf(t) == (CHOOSE i \in 1..Len(Digits) : Digits[i] = t) - 1

RECURSIVE JsonParse(_)
JsonParse(ts) ==
  IF Len(ts) = 1
  THEN CASE ts[1] = "true" -> Parsed(Bool(TRUE))
         [] ts[1] = "false" -> Parsed(Bool(FALSE))
         [] ts[1] = "null" -> Parsed(Null)
         [] \E i \in 1..Len(Digits) : Digits[i] = ts[1] -> Parsed(Num(DigitOf(ts[1])))
         [] OTHER -> Unparsed
  ELSE IF Len(ts) = 3 /\ ts[1] = "\"" /\ ts[3] = "\"" /\ ts[2] \notin {"\"", "{", "}", ":"}
  THEN Parsed(Str(ts[2]))
  ELSE IF /\ Len(ts) >= 7
          /\ ts[1] = "{" /\ ts[2] = "\"" /\ ts[4] = "\"" /\ ts[5] = ":" /\ ts[Len(ts)] = "}"
          /\ ts[3] \notin {"\"", "{", "}", ":"}
  THEN LET inner == JsonParse(SubSeq(ts, 6, Len(ts) - 1))
       IN IF inner.ok THEN Parsed(Object([x \in {ts[3]} |-> inner.value])) ELSE Unparsed
  ELSE Unparsed

\* parse without JSON.parse: the text is handed on as it is
ParseKeepsText(data) == Text(data)

\* parse(data): try { return JSON.parse(data) } catch (error) { return data }
Parse(data) == IF JsonParse(data).ok THEN JsonParse(data).value ELSE Text(data)

(* ------------------------------------------------- platform (WebIDL) -- *)
RECURSIVE JoinComma(_)
JoinComma(xs) ==
  IF xs = <<>> THEN <<>>
  ELSE IF Len(xs) = 1 THEN <<xs[1]>>
  ELSE <<xs[1], ",">> \o JoinComma(Tail(xs))

\* The USVString conversion `new Request(input)` applies to the value core.ts
\* hands it, the array [url, paramMatches]: Array.prototype.toString joins
\* the elements with ",", and the inner array is joined the same way.
ArrayToString(pair) == [pair.url EXCEPT !.trail = <<",">> \o JoinComma(pair.matches)]

\* JSON.stringify of a plain object: its own properties in order
NoBody == [present |-> FALSE, json |-> <<>>]
JsonStringify(o) ==
  LET ks == OwnKeys(o)
  IN [present |-> TRUE, json |-> [i \in 1..Len(ks) |-> <<ks[i], o[ks[i]]>>]]

(* ----------------------------------------------------------- core.ts -- *)
VARIABLES
  request,       \* request[d]: the FastjsRequest object of descriptor d
  timers,        \* timers[d]: the scheduled debounce callbacks, oldest first
  inflight,      \* inflight[d]: the fetches issued and not yet settled
  globalConfig,  \* the process-wide configuration record
  live,          \* the descriptors in use
  log,           \* what the last step invoked, in order
  last           \* the last step: the operation, its descriptor, its outcome

vars == <<request, timers, inflight, globalConfig, live, log, last>>

Methods == {"GET", "POST", "DELETE"}
NullMethod == ""

\* isBodyAllowed(method)
IsBodyAllowed(method) == method \notin {"GET", "HEAD", "OPTIONS"}

\* A hook slot: absent, one function, or an array of n functions.
HooksAbsent == [shape |-> "absent", n |-> 0]
HookFunction == [shape |-> "function", n |-> 1]
HookArray(n) == [shape |-> "array", n |-> n]

\* RequestReturn, as far as the pipeline reads it (present: it is not null)
NoReturn == [present |-> FALSE, status |-> 0, method |-> "", data |-> Undef]
RequestReturn(status, method, data) ==
  [present |-> TRUE, status |-> status, method |-> method, data |-> data]

\* FailedParams
ErrorObj(message) == [kind |-> "Error", message |-> message, n |-> 0]
StatusNum(n) == [kind |-> "number", message |-> <<>>, n |-> n]
NoError == [kind |-> "", message |-> <<>>, n |-> 0]
\* new Error(`Request interrupted by ${hook}`)
Interrupted(hook) == ErrorObj(<<"Request interrupted by ", hook>>)
\* the reason fetch rejects with
NetworkError == ErrorObj(<<"Failed to fetch">>)
FailedParams(error, intercept, hook, response) ==
  [error |-> error, intercept |-> intercept, hook |-> hook, response |-> response]
NoParams == FailedParams(NoError, FALSE, "", NoReturn)

\* One entry of the log: ev is "hook" (key: the lifecycle key, idx: its place
\* in the slot), "failed" (config.failed), "callback" (key: the list, idx: the
\* entry's id), "matchCallback" (key: the list, arg: the method passed),
\* "resolve", "request" (the transport request is built) or "fetch"; arg
\* names what was passed (for a hook: what it returned) and fp is the
\* FailedParams, if any (for "requestReturn": its response is the record built).
Ev(ev, key, idx, arg, fp) == [ev |-> ev, key |-> key, idx |-> idx, arg |-> arg, fp |-> fp]

NoRequest == [built |-> FALSE, url |-> Url(<<>>), method |-> "", body |-> NoBody]

\* One invocation of a hook: its place in the slot and what it returned
Called(i, ret) == [i |-> i, ret |-> IF ret THEN "true" ELSE "false"]

\* for (const hook of hooks) { if (!hook(...)) { result = false; if (!runAll) break } }
RECURSIVE RunHookArray(_, _, _, _, _)
RunHookArray(n, i, rets, result, called) ==
  IF i > n THEN [result |-> result, called |-> called]
  ELSE IF ~rets[i]
       THEN IF ~globalConfig.hooks.runAll
            THEN [result |-> FALSE, called |-> Append(called, Called(i, FALSE))]
            ELSE RunHookArray(n, i + 1, rets, FALSE, Append(called, Called(i, FALSE)))
       ELSE RunHookArray(n, i + 1, rets, result, Append(called, Called(i, TRUE)))

\* runHooks with `result = !!hook(...)` in the loop: the last hook invoked decides
RunHooksLastDecides(hooks, rets) ==
  IF hooks.shape = "absent" THEN [result |-> TRUE, called |-> <<>>]
  ELSE IF hooks.shape = "function"
       THEN [result |-> rets[1], called |-> <<Called(1, rets[1])>>]
  ELSE LET r == RunHookArray(hooks.n, 1, rets, TRUE, <<>>)
       IN [result |-> r.called[Len(r.called)].ret = "true", called |-> r.called]

\* runHooks(hooks, params): rets[i] is what the i-th hook returns if invoked
RunHooks(hooks, rets) ==
  IF hooks.shape = "absent" THEN [result |-> TRUE, called |-> <<>>]
  ELSE IF hooks.shape = "function"
       THEN [result |-> rets[1], called |-> <<Called(1, rets[1])>>]
  ELSE RunHookArray(hooks.n, 1, rets, TRUE, <<>>)

\* for (let i = 0; i < callback.length; i++) { ... }, with i counted from 1
RECURSIVE MatchLoop(_, _, _, _)
MatchLoop(callback, i, method, called) ==
  IF i > Len(callback) THEN [callback |-> callback, called |-> called]
  ELSE LET call == callback[i]
       IN IF call.method # "" /\ call.method # method
          THEN MatchLoop(callback, i + 1, method, called)
          ELSE IF call.once
               THEN MatchLoop(SubSeq(callback, 1, i - 1) \o SubSeq(callback, i + 1, Len(callback)),
                              i, method, Append(called, call.id))
               ELSE MatchLoop(callback, i + 1, method, Append(called, call.id))

\* matchCallback without the splice: a once entry stays in the list
MatchCallbackKeepsOnce(callback, method) ==
  MatchLoop([i \in 1..Len(callback) |-> [callback[i] EXCEPT !.once = FALSE]], 1, method, <<>>)

\* matchCallback without the method test: every entry is invoked
MatchCallbackUnfiltered(callback, method) ==
  LET m == MatchLoop([i \in 1..Len(callback) |-> [callback[i] EXCEPT !.method = ""]], 1, method, <<>>)
  IN [callback |-> SelectSeq(callback, LAMBDA e : \E i \in 1..Len(m.callback) : m.callback[i].id = e.id),
      called |-> m.called]

\* The loop of matchCallback with `callback.splice(i, 1)` and no `i--`
RECURSIVE MatchLoopNoAdjust(_, _, _, _)
MatchLoopNoAdjust(callback, i, method, called) ==
  IF i > Len(callback) THEN [callback |-> callback, called |-> called]
  ELSE LET call == callback[i]
       IN IF call.method # "" /\ call.method # method
          THEN MatchLoopNoAdjust(callback, i + 1, method, called)
          ELSE IF call.once
               THEN MatchLoopNoAdjust(SubSeq(callback, 1, i - 1) \o SubSeq(callback, i + 1, Len(callback)),
                                      i + 1, method, Append(called, call.id))
               ELSE MatchLoopNoAdjust(callback, i + 1, method, Append(called, call.id))

\* matchCallback that does not step back after removing a once entry
MatchCallbackSkipsNext(callback, method) == MatchLoopNoAdjust(callback, 1, method, <<>>)

\* matchCallback(callback, params, method): the list as it is left and the
\* ids of the entries invoked, in order
MatchCallback(callback, method) == MatchLoop(callback, 1, method, <<>>)

\* A step threads st = [req, timers, log, fetched, escaped]: the descriptor,
\* its scheduled timers, the invocations so far, the methods of the fetches
\* issued, and whether a rejection was left without a handler.
LogHooks(st, key, called) ==
  [st EXCEPT !.log = @ \o [i \in 1..Len(called) |-> Ev("hook", key, called[i].i, called[i].ret, NoParams)]]

\* matchCallback(request.callback[list], [arg], method) on the descriptor
Dispatch(st, list, arg, fp, method) ==
  LET m == MatchCallback(st.req.callback[list], method)
  IN [st EXCEPT !.req.callback[list] = m.callback,
                !.log = Append(@, Ev("matchCallback", list, 0, method, NoParams))
                          \o [i \in 1..Len(m.called) |-> Ev("callback", list, m.called[i], arg, fp)]]

\* request.config.failed(failedParams)
CallFailed(st, fp) == [st EXCEPT !.log = Append(@, Ev("failed", "", 0, "failedParams", fp))]

\* hookFailed dispatching the finally callbacks before the failed ones
HookFailedFinallyFirst(st, hook, response) ==
  LET failedParams == FailedParams(Interrupted(hook), TRUE, hook, response)
      s1 == Dispatch(st, "finally", "request", NoParams, NullMethod)
      s2 == CallFailed(s1, failedParams)
  IN Dispatch(s2, "failed", "failedParams", failedParams, NullMethod)

\* hookFailed leaving failedParams.hook null
HookFailedNamesNoHook(st, hook, response) ==
  LET failedParams == FailedParams(Interrupted(hook), TRUE, "", response)
      s1 == CallFailed(st, failedParams)
      s2 == Dispatch(s1, "failed", "failedParams", failedParams, NullMethod)
  IN Dispatch(s2, "finally", "request", NoParams, NullMethod)

\* hookFailed(hook, request, response)
HookFailed(st, hook, response) ==
  LET failedParams == FailedParams(Interrupted(hook), TRUE, hook, response)
      s1 == CallFailed(st, failedParams)
      s2 == Dispatch(s1, "failed", "failedParams", failedParams, NullMethod)
  IN Dispatch(s2, "finally", "request", NoParams, NullMethod)

\* handleBadResponse calling the `resend` it is given: the fetch is issued anew
HandleBadResponseResends(st, response, rf) ==
  LET h == RunHooks(st.req.config.hooks.failed, rf)
      s0 == LogHooks(st, "failed", h.called)
      failedParams == FailedParams(StatusNum(response.status), FALSE, "", response)
      s1 == CallFailed(s0, failedParams)
      s2 == Dispatch(s1, "failed", "failedParams", failedParams, NullMethod)
      s3 == IF ~h.result
            THEN HookFailed(s0, "failed", NoReturn)
            ELSE Dispatch(s2, "finally", "request", NoParams, NullMethod)
  IN [s3 EXCEPT !.fetched = Append(@, response.method),
                !.log = Append(@, Ev("fetch", "", 0, "", NoParams))]

\* handleBadResponse(response, request, resend)
HandleBadResponse(st, response, rf) ==
  LET h == RunHooks(st.req.config.hooks.failed, rf)
      s0 == LogHooks(st, "failed", h.called)
      failedParams == FailedParams(StatusNum(response.status), FALSE, "", response)
      s1 == CallFailed(s0, failedParams)
      s2 == Dispatch(s1, "failed", "failedParams", failedParams, NullMethod)
  IN IF ~h.result
     THEN HookFailed(s0, "failed", NoReturn)
     ELSE Dispatch(s2, "finally", "request", NoParams, NullMethod)

\* What a sendRequest call captured in `data.body` or `data.query`: alias says
\* that it is the object request.data still holds (so that it is read as that
\* object is when the pipeline runs); otherwise q is the value.
Ref(alias, q) == [alias |-> alias, q |-> q]
Resolve(ref, req) == IF ref.alias THEN QMap(req.data) ELSE ref.q

\* const data = { body: ..., query: ... }, core.ts lines 39-42
CaptureData(req, method) ==
  [body |-> IF IsBodyAllowed(method) THEN Ref(TRUE, QNull) ELSE Ref(FALSE, QNull),
   query |-> IF IsBodyAllowed(method) THEN Ref(FALSE, req.config.query) ELSE Ref(TRUE, QNull)]

\* The closure of one sendRequest call: its parameters and `data`
Closure(req, method, url) == [method |-> method, url |-> url, data |-> CaptureData(req, method)]

RECURSIVE DeleteAll(_, _)
DeleteAll(o, ks) == IF ks = <<>> THEN o ELSE DeleteAll(Delete(o, Head(ks)), Tail(ks))

\* request.request = new Request(addQuery(url, data.query), {method, headers, body})
BuildRequest(st, c, url) ==
  LET body == Resolve(c.data.body, st.req)
  IN [st EXCEPT !.req.request =
           [built |-> TRUE,
            url |-> ArrayToString(AddQuery(url, Resolve(c.data.query, st.req), QNull)),
            method |-> c.method,
            body |-> IF body.kind = "map" THEN JsonStringify(body.map) ELSE NoBody],
         !.log = Append(@, Ev("request", "", 0, "", NoParams))]

\* fetch(request.request).then(...).catch(...)
Fetch(st, c) ==
  [st EXCEPT !.fetched = Append(@, c.method),
             !.log = Append(@, Ev("fetch", "", 0, "", NoParams))]

\* passthrough without the `return` of line 76: a vetoing init hook is
\* reported and the fetch is issued all the same
PassthroughFetchesAfterInitVeto(st, c, rb, ri) ==
  LET hooks == st.req.config.hooks
      hb == RunHooks(hooks.before, rb)
      s1 == LogHooks(st, "before", hb.called)
      t == TransformPathParams(c.url, s1.req.data)
      s2 == [s1 EXCEPT !.req.data = DeleteAll(t.query, t.matchs),
                       !.log = Append(@, Ev("resolve", "", 0, "", NoParams))]
      s3 == BuildRequest(s2, c, t.url)
      hi == RunHooks(hooks.init, ri)
      s4 == LogHooks(s3, "init", hi.called)
  IN IF ~hb.result THEN HookFailed(s1, "before", NoReturn)
     ELSE IF ~hi.result THEN Fetch(HookFailed(s4, "init", NoReturn), c)
     ELSE Fetch(s4, c)

\* passthrough(), up to and including the call of fetch: rb and ri are what
\* the before and the init hooks return
Passthrough(st, c, rb, ri) ==
  LET hooks == st.req.config.hooks
      hb == RunHooks(hooks.before, rb)
      s1 == LogHooks(st, "before", hb.called)
      t == TransformPathParams(c.url, s1.req.data)
      s2 == [s1 EXCEPT !.req.data = DeleteAll(t.query, t.matchs),
                       !.log = Append(@, Ev("resolve", "", 0, "", NoParams))]
      s3 == BuildRequest(s2, c, t.url)
      hi == RunHooks(hooks.init, ri)
      s4 == LogHooks(s3, "init", hi.called)
  IN IF ~hb.result THEN HookFailed(s1, "before", NoReturn)
     ELSE IF ~hi.result THEN HookFailed(s4, "init", NoReturn)
     ELSE Fetch(s4, c)

\* const requestReturn = {...}, core.ts lines 85-93
Built(st, requestReturn) ==
  [st EXCEPT !.log = Append(@, Ev("requestReturn", "", 0, "",
                                  FailedParams(NoError, FALSE, "", requestReturn)))]

\* globalConfig.handler.responseCode(status, request): the configured
\* predicate, held as the set of the statuses it accepts
ResponseCode(status) == status \in globalConfig.handler.responseCode

\* The .then handler without the responseCode test of line 95
OnFulfilledAnyStatus(st, method, status, text, rs, rf) ==
  LET requestReturn == RequestReturn(status, method, Parse(text))
      s0 == Built(st, requestReturn)
      hs == RunHooks(s0.req.config.hooks.success, rs)
      s1 == LogHooks(s0, "success", hs.called)
      s2 == Dispatch(s1, "success", "requestReturn", NoParams, method)
  IN IF ~hs.result THEN HookFailed(s1, "success", requestReturn)
     ELSE Dispatch(s2, "finally", "request", NoParams, method)

\* The .then handler calling hookFailed("success", request, null), as
\* handleBadResponse does for the failed hooks
OnFulfilledVetoDropsResponse(st, method, status, text, rs, rf) ==
  LET requestReturn == RequestReturn(status, method, Parse(text))
      s0 == Built(st, requestReturn)
      hs == RunHooks(s0.req.config.hooks.success, rs)
      s1 == LogHooks(s0, "success", hs.called)
      s2 == Dispatch(s1, "success", "requestReturn", NoParams, method)
  IN IF ~ResponseCode(status) THEN HandleBadResponse(s0, requestReturn, rf)
     ELSE IF ~hs.result THEN HookFailed(s1, "success", NoReturn)
     ELSE Dispatch(s2, "finally", "request", NoParams, method)

\* The .then handler of passthrough: the response has `status`, and `text` is
\* what globalConfig.handler.handleResponse returned for it; rs and rf are
\* what the success and the failed hooks return
OnFulfilled(st, method, status, text, rs, rf) ==
  LET requestReturn == RequestReturn(status, method, Parse(text))
      s0 == Built(st, requestReturn)
      hs == RunHooks(s0.req.config.hooks.success, rs)
      s1 == LogHooks(s0, "success", hs.called)
      s2 == Dispatch(s1, "success", "requestReturn", NoParams, method)
  IN IF ~ResponseCode(status) THEN HandleBadResponse(s0, requestReturn, rf)
     ELSE IF ~hs.result THEN HookFailed(s1, "success", requestReturn)
     ELSE Dispatch(s2, "finally", "request", NoParams, method)

\* The .catch handler without its last line: no finally dispatch
OnRejectedWithoutFinally(st, method, rf) ==
  LET h == RunHooks(st.req.config.hooks.failed, rf)
      s0 == LogHooks(st, "failed", h.called)
      failedParams == FailedParams(NetworkError, FALSE, "", NoReturn)
      s1 == CallFailed(s0, failedParams)
  IN IF ~h.result
     THEN HookFailed(s0, "failed", NoReturn)
     ELSE Dispatch(s1, "failed", "failedParams", failedParams, method)

\* passthrough without its .catch: the rejection of fetch has no handler
OnRejectedUnhandled(st, method, rf) == [st EXCEPT !.escaped = TRUE]

\* The .catch handler of passthrough
OnRejected(st, method, rf) ==
  LET h == RunHooks(st.req.config.hooks.failed, rf)
      s0 == LogHooks(st, "failed", h.called)
      failedParams == FailedParams(NetworkError, FALSE, "", NoReturn)
      s1 == CallFailed(s0, failedParams)
      s2 == Dispatch(s1, "failed", "failedParams", failedParams, method)
  IN IF ~h.result
     THEN HookFailed(s0, "failed", NoReturn)
     ELSE Dispatch(s2, "finally", "request", NoParams, method)

\* setTimeout: a handle no scheduled timer of the descriptor has
FreshHandle(st) ==
  CHOOSE h \in 1..(Len(st.timers) + 2) :
    /\ h # st.req.wait
    /\ \A i \in 1..Len(st.timers) : st.timers[i].h # h
    /\ \A g \in 1..(h - 1) : g = st.req.wait \/ \E i \in 1..Len(st.timers) : st.timers[i].h = g

\* clearTimeout(handle)
ClearTimeout(ts, handle) == SelectSeq(ts, LAMBDA t : t.h # handle)

\* sendRequest(request, method, url), core.ts lines 39-52
SendRequest(st, method, url, rb, ri) ==
  LET c == Closure(st.req, method, url)
      cleared == IF st.req.wait # 0 THEN ClearTimeout(st.timers, st.req.wait) ELSE st.timers
      h == FreshHandle([st EXCEPT !.timers = cleared])
  IN IF st.req.config.wait # 0
     THEN [st EXCEPT !.timers = Append(cleared, [h |-> h, c |-> c]),
                     !.req.wait = h]
     ELSE Passthrough(st, c, rb, ri)

(* ------------------------------------------------------- the machine -- *)
Statuses == {200, 404}
\* What the functions of a hook slot return in one run (an input of the
\* step); without runAll no function after the first that returns false is
\* invoked, and one value stands for what it would return
Rets(hooks) ==
  {r \in [1..hooks.n -> BOOLEAN] :
     globalConfig.hooks.runAll \/ \A i, j \in 1..hooks.n : (i < j /\ ~r[i]) => r[j]}
\* The same for a slot that runs only if `reached` (else one value stands for all)
RetsIf(reached, hooks) == IF reached THEN Rets(hooks) ELSE {[i \in 1..hooks.n |-> TRUE]}

Descriptor(url, data, query, wait, hooks, callback) ==
  [url |-> url,
   data |-> data,
   config |-> [wait |-> wait, query |-> query, hooks |-> hooks],
   callback |-> callback,
   wait |-> 0,
   request |-> NoRequest]

SameHooks(h) == [before |-> h, init |-> h, success |-> h, failed |-> h]
SameCallbacks(l) == [success |-> l, failed |-> l, finally |-> l]

\* globalConfig, as far as the pipeline reads it
GlobalConfig(runAll, accepted) ==
  [hooks |-> [runAll |-> runAll], handler |-> [responseCode |-> accepted]]

NoOp ==
  [op |-> "", d |-> "", method |-> "", status |-> 0, text |-> <<>>, re |-> "", ret |-> "",
   escaped |-> FALSE]
Op(op, d, method, status, re, ret, escaped) ==
  [NoOp EXCEPT !.op = op, !.d = d, !.method = method, !.status = status, !.re = re,
               !.ret = ret, !.escaped = escaped]

Start(d) ==
  [req |-> request[d], timers |-> timers[d], log |-> <<>>, fetched |-> <<>>, escaped |-> FALSE]

RECURSIVE AddFetched(_, _)
AddFetched(bag, ms) ==
  IF ms = <<>> THEN bag
  ELSE AddFetched([bag EXCEPT ![Head(ms)] = @ + 1], Tail(ms))

RECURSIVE BagSize(_, _)
BagSize(bag, ms) ==
  IF ms = {} THEN 0
  ELSE LET m == CHOOSE x \in ms : TRUE IN bag[m] + BagSize(bag, ms \ {m})

\* The step's result becomes the state as if the pending timer were kept in
\* one variable of the module: scheduling a timer cancels those of the other
\* descriptors
CommitSharedTimer(d, st, bag, op) ==
  /\ Len(st.timers) <= MaxTimers
  /\ BagSize(AddFetched(bag, st.fetched), Methods) <= MaxInflight
  /\ request' = [request EXCEPT ![d] = st.req]
  /\ timers' = [x \in DOMAIN timers |->
                  IF x = d THEN st.timers
                  ELSE IF st.req.wait # 0 /\ st.req.wait # request[d].wait THEN <<>>
                  ELSE timers[x]]
  /\ inflight' = [inflight EXCEPT ![d] = AddFetched(bag, st.fetched)]
  /\ log' = st.log
  /\ last' = op
  /\ UNCHANGED <<globalConfig, live>>

\* The step's result becomes the state, within the bounds of the model
Commit(d, st, bag, op) ==
  /\ Len(st.timers) <= MaxTimers
  /\ BagSize(AddFetched(bag, st.fetched), Methods) <= MaxInflight
  /\ request' = [request EXCEPT ![d] = st.req]
  /\ timers' = [timers EXCEPT ![d] = st.timers]
  /\ inflight' = [inflight EXCEPT ![d] = AddFetched(bag, st.fetched)]
  /\ log' = st.log
  /\ last' = op
  /\ UNCHANGED <<globalConfig, live>>

\* The caller calls sendRequest(request, method)
Send(d, methods) ==
  /\ d \in live
  /\ \E method \in methods, rb \in RetsIf(request[d].config.wait = 0, request[d].config.hooks.before) :
       \E ri \in RetsIf(request[d].config.wait = 0 /\ RunHooks(request[d].config.hooks.before, rb).result,
                        request[d].config.hooks.init) :
         \E st \in {SendRequest(Start(d), method, request[d].url, rb, ri)} :
            Commit(d, st, inflight[d], Op("sendRequest", d, method, 0, "", "request", st.escaped))

\* The caller assigns a new payload object to request.data; the closures of
\* the calls made before keep the object they captured
Detach(ref, req) == IF ref.alias THEN Ref(FALSE, QMap(req.data)) ELSE ref
SetData(d, payloads) ==
  /\ d \in live
  /\ \E o \in payloads :
       /\ o # request[d].data
       /\ request' = [request EXCEPT ![d].data = o]
       /\ timers' = [timers EXCEPT ![d] =
            [i \in 1..Len(@) |->
               [@[i] EXCEPT !.c.data.body = Detach(@, request[d]),
                            !.c.data.query = Detach(@, request[d])]]]
       /\ log' = <<>>
       /\ last' = Op("setData", d, "", 0, "", "", FALSE)
       /\ UNCHANGED <<inflight, globalConfig, live>>

\* A user function ran in the step, so that it may have called sendRequest
UserCodeRan(st) == \E i \in 1..Len(st.log) : st.log[i].ev \in {"hook", "failed", "callback"}

\* The oldest timer of the descriptor fires (its timers have the same delay):
\*   () => { passthrough(); request.wait = null; }
\* re names the method of a sendRequest call a hook, the failed handler or a
\* callback makes on the descriptor while passthrough runs ("": none).
FireTimer(d, methods) ==
  /\ d \in live
  /\ timers[d] # <<>>
  /\ \E rb \in Rets(request[d].config.hooks.before), re \in methods \cup {""} :
     \E ri \in RetsIf(RunHooks(request[d].config.hooks.before, rb).result,
                      request[d].config.hooks.init) :
       \E t \in {Head(timers[d])} :
       \E s1 \in {Passthrough([Start(d) EXCEPT !.timers = Tail(timers[d])], t.c, rb, ri)} :
       \E s2 \in {IF re # "" THEN SendRequest(s1, re, s1.req.url, rb, ri) ELSE s1} :
       \E s3 \in {[s2 EXCEPT !.req.wait = 0]} :
          /\ re # "" => UserCodeRan(s1)
          /\ Commit(d, s3, inflight[d], Op("timer", d, t.c.method, 0, re, "", s3.escaped))

\* The RequestReturn records built in the last step
Returns == {log[i].fp.response : i \in {j \in 1..Len(log) : log[j].ev = "requestReturn"}}
\* User code was handed r: as the parameter of a success hook or callback, or
\* as the response of the FailedParams of the failed handler or a callback
Delivered(r) ==
  \E i \in 1..Len(log) :
    \/ log[i].ev = "hook" /\ log[i].key = "success"
    \/ log[i].ev = "callback" /\ log[i].key = "success"
    \/ log[i].ev \in {"failed", "callback"} /\ log[i].fp.response = r

\* resend() as if it were always a GET
ResendAsGet(st, r, rb, ri) == SendRequest(st, "GET", st.req.url, rb, ri)

\* resend: () => sendRequest(request, method), core.ts line 92
ResendCall(st, r, rb, ri) == SendRequest(st, r.method, st.req.url, rb, ri)

\* The caller calls resend() of the RequestReturn the last step handed it
Resend(d) ==
  /\ d \in live
  /\ last.op = "settle" /\ last.d = d
  /\ \E r \in Returns, rb \in RetsIf(request[d].config.wait = 0, request[d].config.hooks.before) :
       \E ri \in RetsIf(request[d].config.wait = 0 /\ RunHooks(request[d].config.hooks.before, rb).result,
                        request[d].config.hooks.init) :
         /\ Delivered(r)
         /\ LET st == ResendCall(Start(d), r, rb, ri)
            IN Commit(d, st, inflight[d], Op("resend", d, r.method, 0, "", "request", st.escaped))

\* fetch(request.request).then(onFulfilled).catch(onRejected): the fetch of a
\* call with `method` settles, with a response of `status` and `text`, or (0)
\* rejected
Settled(st, method, status, text, rs, rf) ==
  IF status = 0 THEN OnRejected(st, method, rf)
  ELSE OnFulfilled(st, method, status, text, rs, rf)

Settle(d, texts) ==
  /\ d \in live
  /\ \E method \in {m \in Methods : inflight[d][m] > 0}, status \in Statuses \cup {0} :
     \E text \in (IF status = 0 THEN {<<>>} ELSE texts),
        rs \in RetsIf(ResponseCode(status), request[d].config.hooks.success),
        rf \in RetsIf(~ResponseCode(status), request[d].config.hooks.failed) :
       \E st \in {Settled(Start(d), method, status, text, rs, rf)} :
          Commit(d, st, [inflight[d] EXCEPT ![method] = @ - 1],
                 [Op("settle", d, method, status, "", "", st.escaped) EXCEPT !.text = text])

\* A hook, the failed handler or a callback raises instead of returning.
\* The error user code throws
Thrown == ErrorObj(<<"thrown">>)
IsUserCall(e) == e.ev \in {"hook", "failed", "callback"}
UserCalls(lg) == {i \in 1..Len(lg) : IsUserCall(lg[i])}
\* The place in lg of the k-th invocation of user code
NthUserCall(lg, k) ==
  CHOOSE i \in UserCalls(lg) : Cardinality({j \in UserCalls(lg) : j <= i}) = k

\* The handler that took st0 to s, cut short by the invocation at place n of
\* its log raising: nothing after it happened, and a once entry invoked
\* before it is spliced while the one that raised is not (core.ts 147-148)
ThrowAt(st0, s, n) ==
  [s EXCEPT !.log = SubSeq(s.log, 1, n - 1)
                      \o <<IF s.log[n].ev = "hook" THEN [s.log[n] EXCEPT !.arg = "throws"]
                                                   ELSE s.log[n],
                           Ev("throw", "", 0, "", NoParams)>>,
            !.req.callback =
               [list \in DOMAIN st0.req.callback |->
                  SelectSeq(st0.req.callback[list],
                            LAMBDA e : ~(e.once /\ \E i \in 1..(n - 1) :
                                           /\ s.log[i].ev = "callback" /\ s.log[i].key = list
                                           /\ s.log[i].idx = e.id))]]

\* The .catch handler of passthrough, entered with the error that the .then
\* handler raised
OnThrown(st, method, rf) ==
  LET h == RunHooks(st.req.config.hooks.failed, rf)
      s0 == LogHooks(st, "failed", h.called)
      failedParams == FailedParams(Thrown, FALSE, "", NoReturn)
      s1 == CallFailed(s0, failedParams)
      s2 == Dispatch(s1, "failed", "failedParams", failedParams, method)
  IN IF ~h.result
     THEN HookFailed(s0, "failed", NoReturn)
     ELSE Dispatch(s2, "finally", "request", NoParams, method)

\* fetch(...).then(onFulfilled).catch(onRejected) when the k-th invocation of
\* user code in the handler that runs raises: what the .then handler raises
\* rejects the promise that .catch is attached to; what the .catch handler
\* raises is a rejection nothing handles.  rc is what the failed hooks return
\* in the .catch handler.
SettledThrowing(st, method, status, text, rs, rf, k, rc) ==
  LET s == Settled(st, method, status, text, rs, rf)
      cut == ThrowAt(st, s, NthUserCall(s.log, k))
  IN IF status = 0 THEN [cut EXCEPT !.escaped = TRUE]
     ELSE OnThrown(cut, method, rc)

\* A fetch settles and an invocation of user code in its handler raises
SettleThrows(d, texts) ==
  /\ d \in live
  /\ \E method \in {m \in Methods : inflight[d][m] > 0}, status \in Statuses \cup {0} :
     \E text \in (IF status = 0 THEN {<<>>} ELSE texts),
        rs \in RetsIf(ResponseCode(status), request[d].config.hooks.success),
        rf \in RetsIf(~ResponseCode(status), request[d].config.hooks.failed),
        rc \in RetsIf(status # 0, request[d].config.hooks.failed) :
       \E k \in 1..Cardinality(UserCalls(Settled(Start(d), method, status, text, rs, rf).log)) :
         LET st == SettledThrowing(Start(d), method, status, text, rs, rf, k, rc)
         IN Commit(d, st, [inflight[d] EXCEPT ![method] = @ - 1],
                   [Op("throw", d, method, status, "", "", st.escaped) EXCEPT !.text = text])

(* ---------------------------------------------------- specifications -- *)
EntryKinds == {[once |-> o, method |-> m] : o \in BOOLEAN, m \in {"", "POST"}}
WithIds(l) == [i \in 1..Len(l) |-> [id |-> i, once |-> l[i].once, method |-> l[i].method]]
CallbackLists == {WithIds(l) : l \in UNION {[1..n -> EntryKinds] : n \in 0..MaxCb}}
HookShapes == {HooksAbsent, HookFunction, HookArray(MaxHooks)}

\* Response texts: {"ok":true}, and what parse is given besides
JsonOk == <<"{", "\"", "ok", "\"", ":", "true", "}">>
NotJson == <<"not json">>
Texts ==
  {JsonOk, NotJson, <<>>, <<"7">>, <<"\"", "x", "\"">>, <<"\"", "x">>,
   <<"{", "\"", "ok", "\"", ":">>,
   <<"{", "\"", "a", "\"", ":", "{", "\"", "b", "\"", ":", "null", "}", "}">>}

UsersId == Url(<<Lit(""), Lit("users"), Param("id")>>)
NoFetches == [m \in Methods |-> 0]

Desc == {"A", "B"}

InitCommon ==
  /\ live = {"A"}
  /\ timers = [d \in live |-> <<>>]
  /\ inflight = [d \in live |-> NoFetches]
  /\ log = <<>>
  /\ last = NoOp

Entry(id, once, method) == [id |-> id, once |-> once, method |-> method]
Only(req) == [d \in {"A"} |-> req]

\* Spec: one descriptor without debounce, every shape of hook slot, a
\* response-code predicate that rejects 404 or accepts it, and in each
\* callback list a plain entry, a once entry and an entry filtered to DELETE.
SomeCallbacks ==
  [success |-> <<Entry(1, FALSE, ""), Entry(2, TRUE, ""), Entry(3, FALSE, "DELETE")>>,
   failed |-> <<Entry(1, TRUE, ""), Entry(2, FALSE, ""), Entry(3, FALSE, "DELETE")>>,
   finally |-> <<Entry(1, FALSE, ""), Entry(2, FALSE, "DELETE")>>]

Init ==
  /\ InitCommon
  /\ \E runAll \in BOOLEAN, accepted \in {{200}, Statuses} :
       globalConfig = GlobalConfig(runAll, accepted)
  /\ \E h \in HookShapes :
       \* runAll is read for an array of hooks only
       /\ globalConfig.hooks.runAll => h.shape = "array"
       /\ request = Only(Descriptor(UsersId, Obj2("id", Str("7"), "active", Bool(TRUE)),
                                    QNull, 0, SameHooks(h), SomeCallbacks))

\* The caller sends with GET (no body) or DELETE (body allowed)
Next == \E d \in Desc : Send(d, {"GET", "DELETE"}) \/ Settle(d, {JsonOk}) \/ Resend(d)

Spec == Init /\ [][Next]_vars

\* SpecCallbacks: one descriptor without debounce, sent with GET or POST, a
\* before hook that may veto, every callback list up to MaxCb entries.
InitCallbacks ==
  /\ InitCommon
  /\ globalConfig = GlobalConfig(FALSE, {200})
  /\ \E l \in CallbackLists :
       request = Only(Descriptor(UsersId, Obj1("id", Str("7")), QNull, 0,
                                 [SameHooks(HooksAbsent) EXCEPT !.before = HookFunction],
                                 SameCallbacks(l)))

NextPost == \E d \in Desc : Send(d, {"GET", "POST"}) \/ Settle(d, {JsonOk})

SpecCallbacks == InitCallbacks /\ [][NextPost]_vars

\* SpecDebounce: one descriptor with config.wait = 50 whose caller assigns
\* payloads {n: 1}, {n: 2}, {n: 3} and sends; a before hook may veto.
PayloadsN == {Obj1("n", Num(i)) : i \in 1..3}
InitDebounce ==
  /\ InitCommon
  /\ globalConfig = GlobalConfig(FALSE, {200})
  /\ request = Only(Descriptor(Url(<<Lit(""), Lit("items")>>), Obj1("n", Num(1)), QNull, 50,
                               [SameHooks(HooksAbsent) EXCEPT !.before = HookFunction],
                               SameCallbacks(<<Entry(1, FALSE, "")>>)))

NextDebounce ==
  \E d \in Desc : SetData(d, PayloadsN) \/ Send(d, {"POST"}) \/ FireTimer(d, {"POST"})
                \/ Settle(d, {JsonOk})

SpecDebounce == InitDebounce /\ [][NextDebounce]_vars

\* SpecResolve: one descriptor without debounce, hooks or callbacks, over URL
\* templates, payloads and config.query values, that is sent and resent.
Templates ==
  {UsersId,
   Url(<<Lit(""), Lit("users"), Param("id"), Param("active")>>),
   [Url(<<Lit(""), Param("id"), Lit("list")>>) EXCEPT !.hasQuery = TRUE]}
IdValues == {Undef, Str("7"), Str(""), Str("a b"), Num(0), Bool(FALSE)}
Payloads == {Obj2("id", v, "active", w) : v \in IdValues, w \in {Undef, Bool(TRUE)}}
Queries == {QNull, QMap(Obj1("id", Str("9"))), QString(TRUE, <<<<"page", "2">>>>)}
InitResolve ==
  /\ InitCommon
  /\ globalConfig = GlobalConfig(FALSE, {200})
  /\ \E url \in Templates, data \in Payloads, query \in Queries :
       request = Only(Descriptor(url, data, query, 0, SameHooks(HooksAbsent),
                                 SameCallbacks(<<>>)))

NextResolve == \E d \in Desc : Send(d, {"GET", "POST"}) \/ Settle(d, {JsonOk}) \/ Resend(d)

SpecResolve == InitResolve /\ [][NextResolve]_vars

\* SpecPair: two descriptors, A debounced and with a before hook, B with or
\* without debounce, whose sends, timers and responses interleave.
InitPair ==
  /\ live = Desc
  /\ timers = [d \in live |-> <<>>]
  /\ inflight = [d \in live |-> NoFetches]
  /\ log = <<>>
  /\ last = NoOp
  /\ globalConfig = GlobalConfig(FALSE, {200})
  /\ \E wait \in {0, 50} :
       request =
         [d \in Desc |->
            IF d = "A"
            THEN Descriptor(UsersId, Obj1("id", Str("7")), QNull, 50,
                            [SameHooks(HooksAbsent) EXCEPT !.before = HookFunction],
                            SameCallbacks(<<Entry(1, TRUE, "")>>))
            ELSE Descriptor(Url(<<Lit(""), Lit("items")>>), Obj1("n", Num(1)), QNull, wait,
                            SameHooks(HooksAbsent),
                            SameCallbacks(<<Entry(1, FALSE, "")>>))]

NextPair ==
  \E d \in Desc : Send(d, {"POST"}) \/ FireTimer(d, {"POST"}) \/ Settle(d, {JsonOk})

SpecPair == InitPair /\ [][NextPair]_vars

\* SpecThrow: one descriptor without debounce, with a success and a failed
\* hook and callbacks in every list, whose hooks, failed handler and
\* callbacks may raise while a response is handled.
InitThrow ==
  /\ InitCommon
  /\ globalConfig = GlobalConfig(FALSE, {200})
  /\ request = Only(Descriptor(UsersId, Obj1("id", Str("7")), QNull, 0,
                               [SameHooks(HookFunction) EXCEPT !.before = HooksAbsent,
                                                               !.init = HooksAbsent],
                               [success |-> <<Entry(1, TRUE, ""), Entry(2, FALSE, "")>>,
                                failed |-> <<Entry(1, TRUE, ""), Entry(2, FALSE, "")>>,
                                finally |-> <<Entry(1, FALSE, "")>>]))

NextThrow ==
  \E d \in Desc : Send(d, {"GET", "POST"}) \/ Settle(d, {JsonOk}) \/ SettleThrows(d, {JsonOk})

SpecThrow == InitThrow /\ [][NextThrow]_vars

\* SpecLive: one descriptor, with or without debounce, with a before hook
\* and a finally entry filtered to POST; every scheduled timer fires in the
\* end and every fetch issued settles in the end.
InitLive ==
  /\ InitCommon
  /\ globalConfig = GlobalConfig(FALSE, {200})
  /\ \E wait \in {0, 50} :
       request = Only(Descriptor(UsersId, Obj1("id", Str("7")), QNull, wait,
                                 [SameHooks(HooksAbsent) EXCEPT !.before = HookFunction],
                                 [success |-> <<Entry(1, FALSE, "")>>,
                                  failed |-> <<Entry(1, FALSE, "")>>,
                                  finally |-> <<Entry(1, FALSE, ""), Entry(2, FALSE, "POST")>>]))

TimerFires == \E d \in Desc : FireTimer(d, {"POST"})
FetchSettles == \E d \in Desc : Settle(d, {JsonOk})
NextLive == (\E d \in Desc : Send(d, {"POST"})) \/ TimerFires \/ FetchSettles

SpecLive == InitLive /\ [][NextLive]_vars /\ WF_vars(TimerFires) /\ WF_vars(FetchSettles)

\* SpecCalls: one descriptor, with or without debounce, with a before hook
\* and a failed hook, that is sent, resent and answered.
InitCalls ==
  /\ InitCommon
  /\ globalConfig = GlobalConfig(FALSE, {200})
  /\ \E wait \in {0, 50} :
       request = Only(Descriptor(UsersId, Obj1("id", Str("7")), QNull, wait,
                                 [SameHooks(HooksAbsent) EXCEPT !.before = HookFunction,
                                                                !.failed = HookFunction],
                                 SameCallbacks(<<Entry(1, FALSE, "")>>)))

NextCalls ==
  \E d \in Desc : Send(d, {"GET", "POST"}) \/ FireTimer(d, {"POST"}) \/ Settle(d, {JsonOk})
                \/ Resend(d)

SpecCalls == InitCalls /\ [][NextCalls]_vars

\* SpecParse: one descriptor without debounce, with a success and a failed hook, sent
\* with GET or POST, whose responses carry the texts of Texts.
InitParse ==
  /\ InitCommon
  /\ globalConfig = GlobalConfig(FALSE, {200})
  /\ request = Only(Descriptor(UsersId, Obj1("id", Str("7")), QNull, 0,
                               [SameHooks(HookFunction) EXCEPT !.before = HooksAbsent,
                                                               !.init = HooksAbsent],
                               SameCallbacks(<<Entry(1, FALSE, "")>>)))

NextParse == \E d \in Desc : Send(d, {"GET", "POST"}) \/ Settle(d, Texts)

SpecParse == InitParse /\ [][NextParse]_vars

(* ------------------------------------------------------------ claims -- *)
Lists == {"success", "failed", "finally"}
Count(l, Test(_)) == Len(SelectSeq(l, Test))
IsHook(e, key) == e.ev = "hook" /\ e.key = key
IsCallback(e, list) == e.ev = "callback" /\ e.key = list
IsMatch(e, list) == e.ev = "matchCallback" /\ e.key = list
InLog(Test(_)) == \E i \in 1..Len(log) : Test(log[i])

\* C1: N sendRequest calls on a descriptor with config.wait > 0, each made
\* before the timer of the call before it has fired, run the pipeline once:
\* a timer that fires is the only one scheduled (no call made while it was
\* pending is left to run the pipeline again), and the request its run builds
\* has the method and the payload of that call.
C1_OneRunPerBurst ==
  [][\A d \in live :
       (last'.op = "timer" /\ last'.d = d) =>
         /\ Len(timers[d]) = 1
         /\ InLog(LAMBDA e : e.ev = "request")' =>
              /\ request'[d].request.method = timers[d][1].c.method
              /\ request'[d].request.body =
                   JsonStringify(Resolve(timers[d][1].c.data.body, request[d]).map)]_vars

\* C2: at most one debounce timer of a descriptor is scheduled and not yet
\* fired, and request.wait is null or the handle of that timer.
C2_AtMostOneTimer ==
  \A d \in live :
    /\ Len(timers[d]) <= 1
    /\ request[d].wait = 0 \/ (Len(timers[d]) = 1 /\ timers[d][1].h = request[d].wait)

VetoBy(key) == InLog(LAMBDA e : IsHook(e, key) /\ e.arg = "false")
BadStatus == last.op = "settle" /\ last.status # 0 /\ ~ResponseCode(last.status)
Rejected == last.op = "settle" /\ last.status = 0
\* The last step ended in one of the three failure kinds
Failure == BadStatus \/ Rejected \/ \E key \in {"before", "init", "success", "failed"} : VetoBy(key)
\* Every entry of the list without a method filter that is still in it was invoked
UnfilteredInvoked(d, list) ==
  \A i \in 1..Len(request[d].callback[list]) :
    request[d].callback[list][i].method = "" =>
      InLog(LAMBDA e : IsCallback(e, list) /\ e.idx = request[d].callback[list][i].id)

\* C3 (as stated): when the before (or, before having passed, the init) hook
\* set returns false, no fetch is issued, no success callback runs, and the
\* failed handler, the failed callbacks and the finally callbacks are all
\* invoked with the FailedParams {intercept: true, hook, response: null}.
C3_VetoPassesFailedParamsToAll ==
  \A key \in {"before", "init"} :
    VetoBy(key) =>
      /\ ~InLog(LAMBDA e : e.ev = "fetch")
      /\ ~InLog(LAMBDA e : IsCallback(e, "success"))
      /\ InLog(LAMBDA e : e.ev = "failed")
      /\ \A i \in 1..Len(log) :
           (log[i].ev = "failed" \/ IsCallback(log[i], "failed") \/ IsCallback(log[i], "finally")) =>
             /\ log[i].arg = "failedParams"
             /\ log[i].fp = FailedParams(Interrupted(key), TRUE, key, NoReturn)

\* C3 (amended): when the before (or, before having passed, the init) hook
\* set returns false, no fetch is issued, no success callback runs, the
\* failed handler and the failed callbacks are invoked with the FailedParams
\* {intercept: true, hook, response: null}, and the finally callbacks are
\* dispatched with the descriptor.
C3_VetoRoutesToFailure ==
  \A key \in {"before", "init"} :
    VetoBy(key) =>
      /\ ~InLog(LAMBDA e : e.ev = "fetch")
      /\ ~InLog(LAMBDA e : IsCallback(e, "success") \/ IsMatch(e, "success"))
      /\ Count(log, LAMBDA e : e.ev = "failed") = 1
      /\ InLog(LAMBDA e : IsMatch(e, "failed")) /\ InLog(LAMBDA e : IsMatch(e, "finally"))
      /\ UnfilteredInvoked(last.d, "failed") /\ UnfilteredInvoked(last.d, "finally")
      /\ \A i \in 1..Len(log) :
           /\ (log[i].ev = "failed" \/ IsCallback(log[i], "failed")) =>
                /\ log[i].arg = "failedParams"
                /\ log[i].fp = FailedParams(Interrupted(key), TRUE, key, NoReturn)
           /\ IsCallback(log[i], "finally") => log[i].arg = "request"

\* C3 witness: an init hook vetoed after a transport request was built, and
\* failed and finally callbacks ran
C3_Witness ==
  /\ VetoBy("init")
  /\ InLog(LAMBDA e : e.ev = "request")
  /\ InLog(LAMBDA e : IsCallback(e, "failed") /\ e.fp.hook = "init")
  /\ InLog(LAMBDA e : IsCallback(e, "finally"))

\* C4 (as stated): when the response's status fails the response-code
\* predicate, no success hook or success callback runs, and the failed
\* callbacks and then the finally callbacks are invoked with the
\* FailedParams {error: status, intercept: false, response: RequestReturn}.
C4_BadStatusPassesFailedParams ==
  BadStatus =>
    /\ ~InLog(LAMBDA e : IsHook(e, "success") \/ IsCallback(e, "success"))
    /\ InLog(LAMBDA e : IsMatch(e, "failed")) /\ InLog(LAMBDA e : IsMatch(e, "finally"))
    /\ \A i \in 1..Len(log) :
         (IsCallback(log[i], "failed") \/ IsCallback(log[i], "finally")) =>
           /\ log[i].arg = "failedParams"
           /\ log[i].fp = FailedParams(StatusNum(last.status), FALSE, "",
                                       RequestReturn(last.status, last.method, Parse(last.text)))

\* C4 (amended): when the response's status fails the response-code
\* predicate, no success hook or success callback runs; if the failed hook
\* set does not return false, the failed handler and the failed callbacks
\* are invoked, each once, with the FailedParams {error: status, intercept:
\* false, hook: null, response: RequestReturn}, and after them the finally
\* callbacks are dispatched with the descriptor.
C4_BadStatusRoutesToFailure ==
  BadStatus =>
    /\ ~InLog(LAMBDA e : IsHook(e, "success") \/ IsCallback(e, "success") \/ IsMatch(e, "success"))
    /\ ~VetoBy("failed") =>
         /\ Count(log, LAMBDA e : e.ev = "failed") = 1
         /\ UnfilteredInvoked(last.d, "failed") /\ UnfilteredInvoked(last.d, "finally")
         /\ \A i \in 1..Len(log) :
              /\ (log[i].ev = "failed" \/ IsCallback(log[i], "failed")) =>
                   /\ log[i].arg = "failedParams"
                   /\ log[i].fp = FailedParams(StatusNum(last.status), FALSE, "",
                                               RequestReturn(last.status, last.method, Parse(last.text)))
                   /\ \A j \in 1..Len(log) : (log[j] = log[i]) => j = i
              /\ IsCallback(log[i], "finally") =>
                   /\ log[i].arg = "request"
                   /\ \A j \in 1..Len(log) : IsMatch(log[j], "failed") => j < i

\* C4 witness: a DELETE answered 404, a failed callback invoked with error 404
C4_Witness ==
  /\ BadStatus /\ last.method = "DELETE" /\ last.status = 404
  /\ InLog(LAMBDA e : IsCallback(e, "failed") /\ e.fp.error = StatusNum(404) /\ ~e.fp.intercept)
  /\ InLog(LAMBDA e : IsCallback(e, "finally"))

Ids(l) == {l[i].id : i \in 1..Len(l)}
\* How often the entry `id` of `list` was invoked in the step logged as lg
Invocations(lg, list, id) == Count(lg, LAMBDA e : IsCallback(e, list) /\ e.idx = id)
\* The methods matchCallback was called with on `list` in that step
DispatchMethods(lg, list) == {lg[i].arg : i \in {j \in 1..Len(lg) : IsMatch(lg[j], list)}}
Matches(entry, method) == entry.method = "" \/ entry.method = method

\* C5: a once entry is invoked by a dispatch of its list exactly if the
\* dispatch's method passes its filter, then exactly once, and that dispatch
\* removes it; an entry that is not in the list is never invoked.
C5_OnceFiresOnce ==
  [][\A d \in live, list \in Lists :
       /\ \A i \in 1..Len(request[d].callback[list]) :
            LET entry == request[d].callback[list][i]
                n == IF last'.d = d THEN Invocations(log', list, entry.id) ELSE 0
                matched == /\ last'.d = d
                           /\ \E m \in DispatchMethods(log', list) : Matches(entry, m)
            IN entry.once =>
                 /\ n = (IF matched THEN 1 ELSE 0)
                 /\ (n = 1) <=> (entry.id \notin Ids(request'[d].callback[list]))
       /\ \A j \in 1..Len(log') :
            (last'.d = d /\ IsCallback(log'[j], list)) =>
              log'[j].idx \in Ids(request[d].callback[list])]_vars

\* C5 witness: an entry was invoked and is no longer in its list, of which
\* another entry remains
C5_Witness ==
  \E list \in Lists :
    /\ InLog(LAMBDA e : IsCallback(e, list) /\ e.idx \notin Ids(request[last.d].callback[list]))
    /\ request[last.d].callback[list] # <<>>

\* C6: an entry whose method filter is set and differs from the method of a
\* dispatch is not invoked by it and stays in the list, once or not.
C6_FilteredSkipped ==
  [][\A d \in live, list \in Lists :
       \A i \in 1..Len(request[d].callback[list]) :
         LET entry == request[d].callback[list][i]
         IN (/\ last'.d = d
             /\ entry.method # ""
             /\ DispatchMethods(log', list) # {}
             /\ \A m \in DispatchMethods(log', list) : m # entry.method) =>
              /\ Invocations(log', list, entry.id) = 0
              /\ \E k \in 1..Len(request'[d].callback[list]) :
                   request'[d].callback[list][k] = entry]_vars

\* C6 witness: the success list was dispatched for a GET and still holds a
\* once entry filtered to POST, while another entry was invoked
C6_Witness ==
  /\ InLog(LAMBDA e : IsMatch(e, "success") /\ e.arg = "GET")
  /\ InLog(LAMBDA e : IsCallback(e, "success"))
  /\ \E i \in 1..Len(request[last.d].callback.success) :
       /\ request[last.d].callback.success[i].method = "POST"
       /\ request[last.d].callback.success[i].once

\* C7: a send that builds the transport request replaces every ":key"
\* component whose key is present in the payload, or in the query argument,
\* by the value, leaves the payload without the key, and appends no query
\* parameter named key.
C7_PathParamsConsumed ==
  [][\A d \in live :
       (last'.op = "sendRequest" /\ last'.d = d /\ \E j \in 1..Len(log') : log'[j].ev = "request") =>
         \A i \in 1..Len(request[d].url.path) :
           LET component == request[d].url.path[i]
               key == component.t
               query == Resolve(CaptureData(request[d], last'.method).query, request[d])
               inData == key \in DOMAIN request[d].data
               inQuery == query.kind = "map" /\ key \in DOMAIN query.map
               value == IF inData THEN request[d].data[key] ELSE query.map[key]
           IN (component.p /\ (inData \/ inQuery)) =>
                /\ request'[d].request.url.path[i] = Lit(ToStr(value))
                /\ key \notin DOMAIN request'[d].data
                /\ \A j \in 1..Len(request'[d].request.url.search) :
                     request'[d].request.url.search[j][1] # key]_vars

\* C8: sending {url: "/users/:id", method: "GET", data: {id: "7", active:
\* true}} with wait unset hands the Request constructor exactly the text
\* "/users/7?active=true".
C8_UsersSevenActive ==
  [][\A d \in live :
       (/\ request[d].url = UsersId
        /\ request[d].data = Obj2("id", Str("7"), "active", Bool(TRUE))
        /\ request[d].config.wait = 0 /\ request[d].config.query = QNull
        /\ last'.op = "sendRequest" /\ last'.d = d /\ last'.method = "GET") =>
         request'[d].request.url =
           [path |-> <<Lit(""), Lit("users"), Lit("7")>>, hasQuery |-> TRUE, sep |-> "?",
            search |-> <<<<"active", "true">>>>, trail |-> <<>>]]_vars

\* The place of an invocation in the order of a failure dispatch
Rank(e) ==
  CASE e.ev = "failed" -> 1
    [] IsMatch(e, "failed") \/ IsCallback(e, "failed") -> 2
    [] IsMatch(e, "finally") \/ IsCallback(e, "finally") -> 3
    [] OTHER -> 0

\* C9: after a hook veto, a bad status or a network error the failed handler
\* is invoked, then the failed callbacks are dispatched, then the finally
\* callbacks: nothing of a later stage precedes anything of an earlier one.
C9_FailureOrder ==
  Failure =>
    /\ Count(log, LAMBDA e : e.ev = "failed") = 1
    /\ Count(log, LAMBDA e : IsMatch(e, "failed")) = 1
    /\ Count(log, LAMBDA e : IsMatch(e, "finally")) = 1
    /\ \A i, j \in 1..Len(log) : i < j => Rank(log[i]) <= Rank(log[j])

\* C9 witness: a network error after which the failed handler, a failed
\* callback and a finally callback ran
C9_Witness ==
  /\ Rejected
  /\ InLog(LAMBDA e : e.ev = "failed" /\ ~e.fp.intercept)
  /\ InLog(LAMBDA e : IsCallback(e, "failed"))
  /\ InLog(LAMBDA e : IsCallback(e, "finally"))

\* C10: sendRequest returns the descriptor, no rejection is left without a
\* handler, and a hook veto, a bad status or a network error is delivered
\* through the failed handler.
C10_FailuresAreDelivered ==
  /\ last.op = "sendRequest" => last.ret = "request"
  /\ ~last.escaped
  /\ Failure => InLog(LAMBDA e : e.ev = "failed")

\* C10 witness: a sendRequest call whose before hook vetoed returned the
\* descriptor, the veto having gone to the failed handler
C10_Witness ==
  /\ last.op = "sendRequest" /\ last.ret = "request" /\ ~last.escaped
  /\ VetoBy("before")
  /\ InLog(LAMBDA e : e.ev = "failed" /\ e.fp.hook = "before")

\* JSON.stringify of a value JSON.parse returns
RECURSIVE JsonText(_)
JsonText(value) ==
  CASE value.k = "object" ->
         LET key == CHOOSE x \in DOMAIN value.v : TRUE
         IN <<"{", "\"", key, "\"", ":">> \o JsonText(value.v[key]) \o <<"}">>
    [] value.k = "string" -> <<"\"", value.v, "\"">>
    [] value.k = "null" -> <<"null">>
    [] OTHER -> <<ToStr(value)>>
\* The values whose texts the responses carry
JsonLeaves == {Null, Bool(TRUE), Bool(FALSE), Num(7), Str("x")}
JsonValues ==
  JsonLeaves \cup {Object([x \in {key} |-> v]) : key \in {"ok", "a", "b"}, v \in JsonLeaves}
    \cup {Object([x \in {"a"} |-> Object([y \in {"b"} |-> v])]) : v \in JsonLeaves}

\* C11: when a response arrives, parsing its text raises nothing: exactly one
\* RequestReturn is built; its data is the value the text is the JSON of, if
\* there is one, and else the text unchanged; and the run goes on to classify
\* the response (success path or failure path, ending with the finally
\* dispatch).
C11_ParseNeverRaises ==
  (last.op = "settle" /\ last.status # 0) =>
    /\ ~last.escaped
    /\ Cardinality(Returns) = 1
    /\ \A r \in Returns :
         /\ r.status = last.status
         /\ IF \E v \in JsonValues : JsonText(v) = last.text
            THEN r.data.k # "text" /\ JsonText(r.data) = last.text
            ELSE r.data = Text(last.text)
    /\ InLog(LAMBDA e : IsMatch(e, "finally"))
    /\ InLog(LAMBDA e : IsMatch(e, "success")) \/ InLog(LAMBDA e : e.ev = "failed")
    /\ InLog(LAMBDA e : IsMatch(e, "success")) => ResponseCode(last.status)

\* C11 witness: a 200 response with the text "not json" reached the success
\* callbacks with data equal to that text
C11_Witness ==
  /\ last.op = "settle" /\ last.status = 200 /\ last.text = NotJson
  /\ \E r \in Returns : r.data = Text(NotJson)
  /\ InLog(LAMBDA e : IsCallback(e, "success"))

FetchIssued(lg) == \E i \in 1..Len(lg) : lg[i].ev = "fetch"
\* Every function of the before slot that ran in lg ran before its first fetch
BeforeHooksFirst(lg) ==
  \A i, j \in 1..Len(lg) : (lg[i].ev = "fetch" /\ IsHook(lg[j], "before")) => j < i

\* C13: resend() of a RequestReturn calls sendRequest on the descriptor of the
\* send that produced it, with that send's method: the before hooks run
\* anew, ahead of any network call, and the call is made with that method.
C13_ResendReentersBeforeHook ==
  [][\A d \in live :
       (last'.op = "resend" /\ last'.d = d) =>
         /\ last.op = "settle" /\ last.d = d
         /\ last'.method = last.method /\ last'.ret = "request"
         /\ request[d].config.hooks.before.shape # "absent" =>
              (log' # <<>> /\ IsHook(log'[1], "before"))
         /\ BeforeHooksFirst(log')
         /\ ~RunHooks(request[d].config.hooks.before,
                      [i \in 1..request[d].config.hooks.before.n |->
                         \A j \in 1..Len(log') :
                           (IsHook(log'[j], "before") /\ log'[j].idx = i) => log'[j].arg = "true"]).result
              => ~FetchIssued(log')
         /\ FetchIssued(log') =>
              /\ request'[d].request.method = last.method
              /\ inflight'[d][last.method] = inflight[d][last.method] + 1]_vars

\* C13 witness: resend() of the RequestReturn of a DELETE ran a before hook
\* and issued a fetch
C13_Witness ==
  /\ last.op = "resend" /\ last.method = "DELETE"
  /\ InLog(LAMBDA e : IsHook(e, "before"))
  /\ FetchIssued(log)
  /\ request[last.d].request.method = "DELETE"

\* The sendRequest and resend calls made on d in the step to last
CallsMade(d, op) ==
  IF op.d # d THEN 0
  ELSE (IF op.op \in {"sendRequest", "resend"} THEN 1 ELSE 0)
         + (IF op.op = "timer" /\ op.re # "" THEN 1 ELSE 0)
FetchesIssued(d, op, lg) == IF op.d # d THEN 0 ELSE Count(lg, LAMBDA e : e.ev = "fetch")

\* C12: no network call is issued but by a sendRequest or resend call, and by
\* each at most one: in every step the fetches issued plus the calls left
\* waiting for their debounce timer are at most the calls that waited before
\* plus the calls made in the step, and the step in which a run ends (a
\* response or a rejection is handled) issues no fetch and schedules nothing.
C12_NoFetchWithoutCall ==
  [][\A d \in live :
       /\ FetchesIssued(d, last', log') + Len(timers'[d])
            <= Len(timers[d]) + CallsMade(d, last')
       /\ (last'.op = "settle" /\ last'.d = d) =>
            /\ FetchesIssued(d, last', log') = 0
            /\ timers'[d] = timers[d]
            /\ \A m \in Methods : inflight'[d][m] <= inflight[d][m]]_vars

\* C12 witness: a run ended in a failure while no other fetch is pending and
\* no timer is scheduled
C12_Witness ==
  /\ Failure /\ last.op = "settle"
  /\ \A d \in live : timers[d] = <<>> /\ \A m \in Methods : inflight[d][m] = 0

\* C14: when a send replaced a ":name" component of the URL by the payload's
\* value and consumed the key, the transport request that a resend() builds
\* has the same value in that place, and no literal ":name".
C14_ResendKeepsResolvedUrl ==
  [][\A d \in live :
       (/\ last'.op = "resend" /\ last'.d = d
        /\ \E j \in 1..Len(log') : log'[j].ev = "request"
        /\ request[d].request.built) =>
         \A i \in 1..Len(request[d].url.path) :
           (/\ request[d].url.path[i].p
            /\ ~request[d].request.url.path[i].p
            /\ request[d].url.path[i].t \notin DOMAIN request[d].data) =>
             request'[d].request.url.path[i] = request[d].request.url.path[i]]_vars

\* C15: when the status fails the response-code predicate and the failed hook
\* set returns false, the FailedParams that the failed handler and the failed
\* callbacks receive has intercept true and, as response, the RequestReturn
\* of that response.
C15_BadStatusVetoKeepsResponse ==
  (BadStatus /\ VetoBy("failed")) =>
    /\ InLog(LAMBDA e : e.ev = "failed")
    /\ \A i \in 1..Len(log) :
         (log[i].ev = "failed" \/ IsCallback(log[i], "failed")) =>
           /\ log[i].fp.intercept
           /\ log[i].fp.response = RequestReturn(last.status, last.method, Parse(last.text))

\* The last step delivered a response whose status the predicate accepts
GoodStatus == last.op = "settle" /\ last.status # 0 /\ ResponseCode(last.status)

\* C16: when the status passes the response-code predicate and the success
\* hook set returns false, no success callback is invoked for that response,
\* and the failed handler and the failed callbacks are invoked with the
\* FailedParams {intercept: true, hook: "success", response: RequestReturn}.
C16_SuccessVetoRoutesToFailure ==
  (GoodStatus /\ VetoBy("success")) =>
    /\ ~InLog(LAMBDA e : IsCallback(e, "success") \/ IsMatch(e, "success"))
    /\ Count(log, LAMBDA e : e.ev = "failed") = 1
    /\ InLog(LAMBDA e : IsMatch(e, "failed"))
    /\ UnfilteredInvoked(last.d, "failed")
    /\ \A i \in 1..Len(log) :
         (log[i].ev = "failed" \/ IsCallback(log[i], "failed")) =>
           /\ log[i].arg = "failedParams"
           /\ log[i].fp = FailedParams(Interrupted("success"), TRUE, "success",
                                       RequestReturn(last.status, last.method, Parse(last.text)))

\* C16 witness: a 200 response whose success hook returned false reached a
\* failed callback with the RequestReturn, while a success callback is registered
C16_Witness ==
  /\ GoodStatus /\ VetoBy("success") /\ last.status = 200
  /\ request[last.d].callback.success # <<>>
  /\ InLog(LAMBDA e : IsCallback(e, "failed") /\ e.fp.hook = "success" /\ e.fp.response.present)

\* C17: on the success path the success callbacks are dispatched first and
\* the finally callbacks after them, and every entry of the finally list is
\* invoked, whatever its method filter and the request's method.
C17_FinallyUnfilteredOnSuccess ==
  (GoodStatus /\ ~VetoBy("success")) =>
    /\ InLog(LAMBDA e : IsMatch(e, "success")) /\ InLog(LAMBDA e : IsMatch(e, "finally"))
    /\ \A i, j \in 1..Len(log) :
         ((IsMatch(log[i], "success") \/ IsCallback(log[i], "success"))
            /\ (IsMatch(log[j], "finally") \/ IsCallback(log[j], "finally"))) => i < j
    /\ \A i \in 1..Len(request[last.d].callback.finally) :
         InLog(LAMBDA e : IsCallback(e, "finally") /\ e.idx = request[last.d].callback.finally[i].id)

\* C18: on every failure outcome (hook veto, bad status, network error) a
\* failed-callback entry whose method filter equals the method of the request
\* is invoked with the FailedParams, and only the entries whose filter
\* differs from that method are skipped.
C18_FailedFilterMatchesMethod ==
  Failure =>
    \A i \in 1..Len(request[last.d].callback.failed) :
      LET entry == request[last.d].callback.failed[i]
          invoked == InLog(LAMBDA e : IsCallback(e, "failed") /\ e.idx = entry.id
                                        /\ e.arg = "failedParams")
      IN /\ entry.method = last.method => invoked
         /\ invoked => Matches(entry, last.method)

\* C19: in every FailedParams that the failed handler or a failed callback
\* receives, intercept is true exactly if hook is not null, and then a hook
\* of the key that `hook` names returned false in that run; after a bad
\* status or a network error without veto, intercept is false and hook null.
C19_InterceptIffHook ==
  \A i \in 1..Len(log) :
    (log[i].ev = "failed" \/ IsCallback(log[i], "failed")) =>
      /\ log[i].fp.intercept <=> log[i].fp.hook # ""
      /\ log[i].fp.intercept =>
           /\ log[i].fp.hook \in {"before", "init", "success", "failed"}
           /\ VetoBy(log[i].fp.hook)
      /\ ((BadStatus \/ Rejected) /\ ~VetoBy("failed")) =>
           ~log[i].fp.intercept /\ log[i].fp.hook = ""

\* C19 witness: a 404 whose failed hook returned false reached a failed
\* callback with intercept true and hook "failed"
C19_Witness ==
  /\ BadStatus /\ VetoBy("failed")
  /\ InLog(LAMBDA e : IsCallback(e, "failed") /\ e.fp.intercept /\ e.fp.hook = "failed")

\* The invocations of the hooks of a key in the last step, in order
HookCalls(key) == SelectSeq(log, LAMBDA e : IsHook(e, key))
\* The last step went to hookFailed for the key: runHooks returned false
ReturnedFalse(key) == InLog(LAMBDA e : e.ev = "failed" /\ e.fp.hook = key)

\* C20: runHooks returns true for an absent hook set; it invokes the hooks of
\* a list in list order and returns false exactly if an invoked hook returned
\* false; with runAll off no hook after the first failing one is invoked,
\* with runAll on every hook of the list is invoked and the result is still
\* false if one failed. A false result raises nothing.
C20_RunHooks ==
  /\ ~last.escaped
  /\ \A d \in live, key \in {"before", "init", "success", "failed"} :
       last.d = d =>
         LET hooks == request[d].config.hooks[key]
             calls == HookCalls(key)
         IN /\ hooks.shape = "absent" => calls = <<>> /\ ~ReturnedFalse(key)
            /\ hooks.shape = "array" =>
                 /\ Len(calls) <= hooks.n
                 /\ \A j \in 1..Len(calls) : calls[j].idx = j
                 /\ ReturnedFalse(key) <=> \E j \in 1..Len(calls) : calls[j].arg = "false"
                 /\ calls # <<>> =>
                      IF globalConfig.hooks.runAll
                      THEN Len(calls) = hooks.n
                      ELSE /\ \A j \in 1..(Len(calls) - 1) : calls[j].arg = "true"
                           /\ Len(calls) = hooks.n \/ calls[Len(calls)].arg = "false"

\* C20 witness: with runAll on, the first before hook of a list returned
\* false, the second was invoked and returned true, and the run was vetoed
C20_Witness ==
  /\ globalConfig.hooks.runAll
  /\ HookCalls("before") # <<>>
  /\ Len(HookCalls("before")) = MaxHooks
  /\ HookCalls("before")[1].arg = "false"
  /\ HookCalls("before")[MaxHooks].arg = "true"
  /\ ReturnedFalse("before")

\* The ids of the entries of a list that the step invoked, in order
InvokedIds(lg, list) ==
  LET calls == SelectSeq(lg, LAMBDA e : IsCallback(e, list))
  IN [i \in 1..Len(calls) |-> calls[i].idx]
IdsOf(l) == [i \in 1..Len(l) |-> l[i].id]

\* C21: one dispatch of a list invokes the entries that match the method,
\* each once and in registration order, for every mix of once and other
\* entries; no entry that follows a removed once entry is skipped, and the
\* entries that are not once entries invoked stay in the list in their order.
C21_DispatchInOrder ==
  [][\A d \in live, list \in Lists :
       (last'.d = d /\ DispatchMethods(log', list) # {}) =>
         \E m \in DispatchMethods(log', list) :
           /\ DispatchMethods(log', list) = {m}
           /\ Count(log', LAMBDA e : IsMatch(e, list)) = 1
           /\ InvokedIds(log', list) =
                IdsOf(SelectSeq(request[d].callback[list], LAMBDA e : Matches(e, m)))
           /\ request'[d].callback[list] =
                SelectSeq(request[d].callback[list], LAMBDA e : ~(Matches(e, m) /\ e.once))]_vars

\* C21 witness: one dispatch invoked two consecutive once entries, first the
\* first, and left the list empty
C21_Witness ==
  /\ last.d \in live
  /\ InvokedIds(log, "finally") = <<1, 2>>
  /\ request[last.d].callback.finally = <<>>

\* The place of an invocation among the steps of a pipeline run, as the
\* control flow names them; 0 for what comes after the network call
Stage(e) ==
  IF e.ev = "resolve" THEN 1
  ELSE IF IsHook(e, "before") THEN 2
  ELSE IF e.ev = "request" THEN 3
  ELSE IF IsHook(e, "init") THEN 4
  ELSE IF e.ev = "fetch" THEN 5
  ELSE 0

\* C22: within one pipeline run the path parameters are resolved (and their
\* keys removed from the payload) first, then the before hooks run, then the
\* transport request is built, then the init hooks run, then the network
\* call is issued; the before hooks run on a resolved payload, the init
\* hooks on a built transport request.
C22_ResolveThenBeforeHooks ==
  /\ \A i, j \in 1..Len(log) :
       (i < j /\ Stage(log[i]) # 0 /\ Stage(log[j]) # 0) => Stage(log[i]) <= Stage(log[j])
  /\ InLog(LAMBDA e : IsHook(e, "before")) => InLog(LAMBDA e : e.ev = "resolve")
  /\ InLog(LAMBDA e : IsHook(e, "init")) =>
       InLog(LAMBDA e : e.ev = "request") /\ request[last.d].request.built

\* The query parameters that serialise a payload: one per own property
PayloadParams(data) == QueryToUrlParams(QMap(data))
\* The query parameters of config.query alone
ConfigParams(query) == IF QueryIsEmpty(query) THEN <<>> ELSE QueryToUrlParams(query)

\* C23: a send with a method that forbids a body builds a transport request
\* without body whose query string is the payload that remains after the
\* path parameters were substituted; with any other method the body is the
\* JSON text of the remaining payload, without the consumed keys, and the
\* payload is not in the query string.
C23_PayloadAsQueryOrBody ==
  [][\A d \in live :
       (/\ last'.op = "sendRequest" /\ last'.d = d
        /\ \E j \in 1..Len(log') : log'[j].ev = "request") =>
         LET built == request'[d].request
             remaining == request'[d].data
         IN /\ \A k \in DOMAIN request[d].data \ DOMAIN remaining :
                 Lit(ToStr(request[d].data[k])) \in {built.url.path[i] : i \in 1..Len(built.url.path)}
            /\ IF IsBodyAllowed(last'.method)
               THEN /\ built.body = JsonStringify(remaining)
                    /\ built.url.search = ConfigParams(request[d].config.query)
               ELSE /\ built.body = NoBody
                    /\ built.url.search = PayloadParams(remaining)
                    /\ built.url.search # <<>> => built.url.trail = <<>>]_vars

\* C24: an operation on one descriptor leaves every other descriptor as it
\* was: its debounce timers and handle, its payload, callback lists and
\* transport request, and its fetches in flight; what is invoked in the step
\* is of the operation's descriptor; and no step writes the process-wide
\* configuration.
C24_DescriptorsIndependent ==
  [][/\ globalConfig' = globalConfig
     /\ \A d \in live :
          last'.d # d =>
            /\ timers'[d] = timers[d]
            /\ request'[d] = request[d]
            /\ inflight'[d] = inflight[d]]_vars

\* C24 witness: while B has a timer pending and A a fetch in flight, a send
\* on A scheduled a timer of A
C24_Witness ==
  /\ last.op = "sendRequest" /\ last.d = "A"
  /\ timers["A"] # <<>> /\ timers["B"] # <<>>
  /\ BagSize(inflight["A"], Methods) > 0

\* The last step handled the settling of a fetch
Handled == last.op \in {"settle", "throw"}

\* C25: a run that issued a network call dispatches one terminal outcome:
\* the finally callbacks are dispatched exactly once, and the success
\* callbacks and the failed handler or failed callbacks are not both
\* dispatched, also when a hook, the failed handler or a callback raises
\* while the response is handled.
C25_OneTerminalOutcome ==
  Handled =>
    /\ Count(log, LAMBDA e : IsMatch(e, "finally")) = 1
    /\ ~(/\ InLog(LAMBDA e : IsMatch(e, "success"))
          /\ InLog(LAMBDA e : e.ev = "failed" \/ IsMatch(e, "failed")))

\* A timer of the descriptor is scheduled or a fetch of it is in flight
Pending(d) == d \in live /\ (timers[d] # <<>> \/ BagSize(inflight[d], Methods) > 0)
\* The last step ended a run of the descriptor: the finally list was
\* dispatched and its entries without a method filter were invoked
Terminal(d) ==
  /\ d \in live /\ last.d = d
  /\ InLog(LAMBDA e : IsMatch(e, "finally"))
  /\ UnfilteredInvoked(d, "finally")

\* C26: a sendRequest call that no later send supersedes within its debounce
\* window reaches in the end a state in which the finally callbacks without
\* a method filter have been dispatched, if timers fire and fetches settle
\* in the end; with wait unset or zero the call itself runs the pipeline up
\* to the network call (or to the veto), and schedules no timer.
C26_EventuallyFinally ==
  /\ \A d \in Desc : Pending(d) ~> Terminal(d)
  /\ [](\A d \in live :
          (last.op = "sendRequest" /\ last.d = d /\ request[d].config.wait = 0) =>
            /\ timers[d] = <<>>
            /\ InLog(LAMBDA e : e.ev = "fetch") \/ Terminal(d))

\* C26 witness: a debounced send ran when its timer fired, its fetch
\* settled, and the finally callback was invoked
C26_Witness ==
  /\ last.op = "settle" /\ Terminal(last.d)
  /\ request[last.d].config.wait # 0
  /\ InLog(LAMBDA e : IsCallback(e, "finally"))

====
